---- MODULE Spec2Model ----
(***************************************************************************)
(* A model of the langley tokenizer: the cursor over the input (start,     *)
(* pos, width, line), the rune primitives, the Emit/Ignore/Errorf token    *)
(* boundary protocol, the run loop of the driver goroutine, and the        *)
(* consumer's Next/Drain on the unbuffered token channel.                  *)
(*                                                                         *)
(* The input is a sequence of bytes; offsets are 0-based as in Go, so      *)
(* input[i] of the source is input[i + 1] here.                            *)
(***************************************************************************)
EXTENDS Integers, Sequences, FiniteSets, TLC

\* ------------------------------------------------------------- bounds

\* Longest input built from InputBytes.
MaxLen == 2
\* Most tokens the driver sends (Emit and Errorf together) in one scan.
MaxTokens == 2

\* How far before the input a misused Backup may take the cursor.
MaxBelow == 2

\* ---------------------------------------------------------- constants

eof == -1
newline == 10
RuneError == 65533

\* The capacity the channel would have were it made with room for a token.
BufferedChanCap == 0 + 1

\* Capacity of the token channel: make(chan Token) is unbuffered.
ChanCap == 0

\* Bytes the short inputs are built from: 'a' and '\n'.
InputBytes == {97, 10}

\* Inputs with multi-byte code points (U+00E9 in 2 bytes, U+20AC in 3,
\* U+1F600 in 4), a newline before and after one, an encoded U+FFFD, and
\* the invalid encodings of a truncated code point and a lone
\* continuation byte.
MultiByteInputs ==
    { <<195, 169>>,
      <<97, 195, 169>>,
      <<226, 130, 172>>,
      <<240, 159, 152, 128>>,
      <<10, 226, 130, 172, 10>>,
      <<239, 191, 189>>,
      <<195>>,
      <<169, 10>> }

RECURSIVE SeqsUpTo(_, _)
SeqsUpTo(S, n) ==
    IF n = 0 THEN { <<>> }
    ELSE LET shorter == SeqsUpTo(S, n - 1)
         IN  shorter \cup { Append(s, b) : s \in shorter, b \in S }

Inputs == SeqsUpTo(InputBytes, MaxLen) \cup MultiByteInputs

\* The inputs of the runs that follow the consumer through every
\* interleaving: the empty input, and a newline before a letter.
FewInputs == { <<>>, <<10, 97>> }

\* The inputs of the runs checked for progress.
LiveInputs == { <<>>, <<10>> }

\* Alphabets handed to MatchOne / MatchMany, as the set of code points of
\* the alphabet string; the last one holds U+FFFD.
Alphabets == { {97}, {10, 97}, {233, 8364}, {97, 65533} }

\* Token categories a grammar emits: "Word" answers CountNewLines() false,
\* "Block" answers true.  "ERR" and "EOF" are the package's own.
GrammarTypes == {"Word", "Block"}

CountNewLines(tt) == tt = "Block"

\* Formatted messages of Errorf.
Messages == { <<101, 114, 114>> }

\* ------------------------------------------------------------- tokens

Token(tt, val, p, ln) == [typ |-> tt, val |-> val, pos |-> p, line |-> ln]

\* The zero value of Token: what a receive on a closed channel yields.
ZeroToken == Token("nil", <<>>, 0, 0)

\* ------------------------------------------------- pure string helpers

\* t.input[lo:hi]
Slice(s, lo, hi) == SubSeq(s, lo + 1, hi)

\* strings.Count(s, "\n")
RECURSIVE CountNewlinesIn(_)
CountNewlinesIn(s) ==
    IF s = <<>> THEN 0
    ELSE (IF Head(s) = newline THEN 1 ELSE 0) + CountNewlinesIn(Tail(s))

\* Number of bytes the leading byte b announces; 0 for a byte that cannot
\* start an encoding.
LeadSize(b) ==
    IF b < 128 THEN 1
    ELSE IF b >= 194 /\ b <= 223 THEN 2
    ELSE IF b >= 224 /\ b <= 239 THEN 3
    ELSE IF b >= 240 /\ b <= 244 THEN 4
    ELSE 0

\* Accepted range of the second byte, by leading byte.
AcceptLo(b) == IF b = 224 THEN 160 ELSE IF b = 240 THEN 144 ELSE 128
AcceptHi(b) == IF b = 237 THEN 159 ELSE IF b = 244 THEN 143 ELSE 191

IsCont(b) == b >= 128 /\ b <= 191

\* utf8.DecodeRuneInString(s): the rune and its width in bytes.
DecodeRuneInString(s) ==
    LET n  == Len(s)
        bad == [r |-> RuneError, w |-> 1]
    IN  IF n < 1 THEN [r |-> RuneError, w |-> 0]
        ELSE LET s0 == s[1]
                 sz == LeadSize(s0)
             IN  IF sz = 1 THEN [r |-> s0, w |-> 1]
                 ELSE IF sz = 0 \/ n < sz THEN bad
                 ELSE IF s[2] < AcceptLo(s0) \/ AcceptHi(s0) < s[2] THEN bad
                 ELSE IF sz = 2
                      THEN [r |-> (s0 % 32) * 64 + (s[2] % 64), w |-> 2]
                 ELSE IF ~IsCont(s[3]) THEN bad
                 ELSE IF sz = 3
                      THEN [r |-> (s0 % 16) * 4096 + (s[2] % 64) * 64
                                  + (s[3] % 64),
                            w |-> 3]
                 ELSE IF ~IsCont(s[4]) THEN bad
                 ELSE [r |-> (s0 % 8) * 262144 + (s[2] % 64) * 4096
                             + (s[3] % 64) * 64 + (s[4] % 64),
                       w |-> 4]

\* strings.ContainsRune(alphabet, r) for an alphabet of valid code points:
\* eof (-1) is no code point and is never found.
ContainsRune(alphabet, r) == r >= 0 /\ r \in alphabet

\* -------------------------------------------------------------- state

VARIABLES
    input,     \* t.input, as bytes
    state,     \* t.state: "fn" (some state function) or "nil"
    start,     \* t.start
    pos,       \* t.pos
    width,     \* t.width
    line,      \* t.line
    oldPos,    \* t.oldPos
    tokens,    \* t.tokens: [buf: queued tokens, closed: BOOLEAN]
    pcD,       \* where the driver goroutine (run) is
    pending,   \* the Token of the send the driver is blocked in
    pcC,       \* where the consumer is
    tkn,       \* Next's local tkn; after Next returned, its result
    op,        \* the last cursor primitive a state function called
    ret,       \* what that primitive returned (a rune; 1 or 0 for a bool)
    prev,      \* pos, start, line and width right before that primitive
    emitted,   \* every Token the driver has sent or is sending, in order
    received,  \* every Token the consumer took off the channel, in order
    returned   \* every Token a Next call returned from an open channel

cursor == <<start, pos, width, line>>
driver == <<state, start, pos, width, line, pcD, pending, op, ret, prev, emitted>>
consumer == <<oldPos, pcC, tkn, received, returned>>
vars == <<input, state, start, pos, width, line, oldPos, tokens, pcD, pending,
          pcC, tkn, op, ret, prev, emitted, received, returned>>

Sending == {"sendEmit", "sendErr"}

Cur == [pos |-> pos, start |-> start, line |-> line, width |-> width]

\* ------------------------------------------- cursor primitives (pure)
\* Each takes the fields it reads and yields the fields it writes, the
\* value it returns (r), and whether it panicked (an index or a slice
\* bound out of range) or never returns (spin).

Result(p, ln, w, r) ==
    [pos |-> p, line |-> ln, width |-> w, r |-> r, panic |-> FALSE, spin |-> FALSE]

Panicked(c) == [Result(c.pos, c.line, c.width, 0) EXCEPT !.panic = TRUE]

\* NextRune
NextRuneOp(c) ==
    IF c.pos > Len(input) THEN Result(c.pos, c.line, 0, eof)
    ELSE IF c.pos < 0 THEN Panicked(c)
    ELSE LET d == DecodeRuneInString(Slice(input, c.pos, Len(input)))
         IN  Result(c.pos + d.w,
                    IF d.r = newline THEN c.line + 1 ELSE c.line,
                    d.w,
                    d.r)

\* Backup as it would be with the width taken to be one byte.
BackupOneByte(c) ==
    LET p == c.pos - 1
    IN  IF p < 0 \/ p >= Len(input)
        THEN [Panicked(c) EXCEPT !.pos = p]
        ELSE Result(p,
                    IF input[p + 1] = newline THEN c.line - 1 ELSE c.line,
                    c.width,
                    0)

\* Backup as it would be without the line correction.
BackupKeepsLine(c) == Result(c.pos - c.width, c.line, c.width, 0)

\* Backup as it would be if it cleared the recorded width.
BackupClearsWidth(c) ==
    LET p == c.pos - c.width
    IN  IF c.width = 1 /\ (p < 0 \/ p >= Len(input))
        THEN [Panicked(c) EXCEPT !.pos = p]
        ELSE Result(p,
                    IF c.width = 1 /\ input[p + 1] = newline
                    THEN c.line - 1 ELSE c.line,
                    0,
                    0)

\* Backup
BackupOp(c) ==
    LET p == c.pos - c.width
    IN  IF c.width = 1
        THEN IF p < 0 \/ p >= Len(input)
             THEN [Panicked(c) EXCEPT !.pos = p]
             ELSE Result(p,
                         IF input[p + 1] = newline THEN c.line - 1 ELSE c.line,
                         c.width,
                         0)
        ELSE Result(p, c.line, c.width, 0)

\* Peek as it would be without the Backup.
PeekConsumes(c) == NextRuneOp(c)

\* Peek
PeekOp(c) ==
    LET n == NextRuneOp(c)
    IN  IF n.panic THEN n
        ELSE [BackupOp(n) EXCEPT !.r = IF BackupOp(n).panic THEN 0 ELSE n.r]

\* MatchOne
MatchOneOp(c, alphabet) ==
    LET n == NextRuneOp(c)
    IN  IF n.panic THEN n
        ELSE IF ContainsRune(alphabet, n.r) THEN [n EXCEPT !.r = 1]
        ELSE [BackupOp(n) EXCEPT !.r = 0]

\* MatchMany: the loop reads until a rune is not in the alphabet.  A read
\* of width 0 that is in the alphabet leaves the cursor where it was, so
\* the loop never ends.
RECURSIVE MatchManyOp(_, _)
MatchManyOp(c, alphabet) ==
    LET n == NextRuneOp(c)
    IN  IF n.panic THEN n
        ELSE IF ContainsRune(alphabet, n.r)
             THEN IF n.width = 0
                  THEN [n EXCEPT !.spin = TRUE, !.r = 0]
                  ELSE MatchManyOp(n, alphabet)
        ELSE BackupOp(n)

\* ------------------------------------------------------- the channel

\* A send completes at once when the buffer has room; otherwise the
\* sender blocks until a receiver takes its value.
SendCompletes(ch) == Len(ch.buf) < ChanCap

\* A receive can proceed: a queued value, a blocked sender, or closed.
CanRecv(ch, senderBlocked) == ch.buf # <<>> \/ senderBlocked \/ ch.closed

\* The value a receive yields, and whether it came from a send (ok).
RecvOk(ch, senderBlocked) == ch.buf # <<>> \/ senderBlocked

RecvValue(ch, senderBlocked, tok) ==
    IF ch.buf # <<>> THEN Head(ch.buf)
    ELSE IF senderBlocked THEN tok
    ELSE ZeroToken

\* The channel after a receive: the head is gone, and a blocked sender's
\* value has moved in behind what was queued.
AfterRecv(ch, senderBlocked, tok) ==
    IF ch.buf # <<>>
    THEN [ch EXCEPT !.buf = Tail(@) \o (IF senderBlocked THEN <<tok>> ELSE <<>>)]
    ELSE ch

\* Where the driver continues once its send has completed.
AfterSend(pc) ==
    IF pc = "sendEmit" THEN "emitRest"
    ELSE IF pc = "sendErr" THEN "errRet"
    ELSE pc

\* ----------------------------------------------------------- New

Init ==
    /\ input \in Inputs
    /\ state \in {"fn", "nil"}
    /\ start = 0 /\ pos = 0 /\ width = 0 /\ line = 0 /\ oldPos = 0
    /\ tokens = [buf |-> <<>>, closed |-> FALSE]
    /\ pcD = "loop"
    /\ pending = ZeroToken
    /\ pcC = "idle"
    /\ tkn = ZeroToken
    /\ op = "New" /\ ret = 0
    /\ prev = [pos |-> 0, start |-> 0, line |-> 0, width |-> 0]
    /\ emitted = <<>> /\ received = <<>> /\ returned = <<>>

\* ----------------------------------------------------------- run

\* for t.state != nil { t.state = t.state(t) }: enter the state function.
RunCall ==
    /\ pcD = "loop" /\ state # "nil"
    /\ pcD' = "infn"
    /\ UNCHANGED <<input, state, cursor, oldPos, tokens, pending, op, ret, prev,
                   emitted, consumer>>

\* The end of run as it would be without the close.
RunEndsWithoutClose ==
    /\ pcD = "loop" /\ state = "nil"
    /\ pcD' = "done"
    /\ UNCHANGED <<input, state, cursor, oldPos, tokens, pending, op, ret, prev,
                   emitted, consumer>>

\* close(t.tokens)
RunClose ==
    /\ pcD = "loop" /\ state = "nil"
    /\ tokens' = [tokens EXCEPT !.closed = TRUE]
    /\ pcD' = "done"
    /\ UNCHANGED <<input, state, cursor, oldPos, pending, op, ret, prev,
                   emitted, consumer>>

\* The state function returns next: another state function, or nil.
FnReturn(next) ==
    /\ pcD = "infn"
    /\ state' = next
    /\ pcD' = "loop"
    /\ UNCHANGED <<input, cursor, oldPos, tokens, pending, op, ret, prev,
                   emitted, consumer>>

\* ------------------------------------- cursor primitives (actions)

\* A state function calls the primitive called name, whose effect is res.
Step(name, res) ==
    /\ pcD = "infn"
    /\ op' = name
    /\ prev' = Cur
    /\ pos' = res.pos /\ line' = res.line /\ width' = res.width
    /\ ret' = res.r
    /\ pcD' = IF res.panic THEN "panic" ELSE IF res.spin THEN "spin" ELSE "infn"
    /\ UNCHANGED <<input, state, start, oldPos, tokens, pending, emitted, consumer>>

NextRune == Step("NextRune", NextRuneOp(Cur))

Peek == Step("Peek", PeekOp(Cur))

MatchOne(alphabet) == Step("MatchOne", MatchOneOp(Cur, alphabet))

MatchMany(alphabet) == Step("MatchMany", MatchManyOp(Cur, alphabet))

\* The grammar author's contract: Backup only right after a read that was
\* kept (NextRune, or MatchOne that returned true).
ReadJustBefore == op = "NextRune" \/ (op = "MatchOne" /\ ret = 1)

BackupAnywhere == Step("Backup", BackupOp(Cur))

Backup == ReadJustBefore /\ BackupAnywhere

\* Backup called outside the contract too; the guard keeps the cursor
\* within MaxBelow bytes before the input.
BackupUnchecked ==
    /\ pos - width >= 0 - MaxBelow
    /\ BackupAnywhere

\* t.input[t.start:t.pos] is in range.
SliceInRange == 0 <= start /\ start <= pos /\ pos <= Len(input)

\* Ignore as it would be without the newline count.
IgnoreKeepsLine ==
    /\ pcD = "infn"
    /\ op' = "Ignore" /\ prev' = Cur /\ ret' = 0
    /\ IF SliceInRange
       THEN /\ start' = pos
            /\ pcD' = "infn"
       ELSE /\ pcD' = "panic"
            /\ start' = start
    /\ UNCHANGED <<input, state, pos, width, line, oldPos, tokens, pending,
                   emitted, consumer>>

\* Ignore
Ignore ==
    /\ pcD = "infn"
    /\ op' = "Ignore" /\ prev' = Cur /\ ret' = 0
    /\ IF SliceInRange
       THEN /\ line' = line + CountNewlinesIn(Slice(input, start, pos))
            /\ start' = pos
            /\ pcD' = "infn"
       ELSE /\ pcD' = "panic"
            /\ UNCHANGED <<line, start>>
    /\ UNCHANGED <<input, state, pos, width, oldPos, tokens, pending, emitted,
                   consumer>>

\* ------------------------------------------------- Emit and Errorf

\* A send that does not wait for a receiver: with no room and nobody
\* receiving, the token is dropped and the driver goes on.
StartSendNonBlocking(tok, where) ==
    /\ pending' = tok
    /\ emitted' = Append(emitted, tok)
    /\ tokens' = IF SendCompletes(tokens)
                 THEN [tokens EXCEPT !.buf = Append(@, tok)]
                 ELSE tokens
    /\ pcD' = AfterSend(where)

\* The driver starts the send of tok; where names the blocked position.
StartSend(tok, where) ==
    /\ pending' = tok
    /\ emitted' = Append(emitted, tok)
    /\ IF SendCompletes(tokens)
       THEN /\ tokens' = [tokens EXCEPT !.buf = Append(@, tok)]
            /\ pcD' = AfterSend(where)
       ELSE /\ tokens' = tokens
            /\ pcD' = where

\* Emit, up to the send: t.tokens <- Token{tt, t.input[t.start:t.pos], ...}
EmitSend(tt) ==
    /\ pcD = "infn"
    /\ Len(emitted) < MaxTokens
    /\ op' = "Emit" /\ prev' = Cur /\ ret' = 0
    /\ IF SliceInRange
       THEN StartSend(Token(tt, Slice(input, start, pos), start, line), "sendEmit")
       ELSE /\ pcD' = "panic"
            /\ UNCHANGED <<pending, emitted, tokens>>
    /\ UNCHANGED <<input, state, cursor, oldPos, consumer>>

\* The rest of Emit as it would be without t.start = t.pos.
EmitRestKeepsStart ==
    /\ pcD = "emitRest"
    /\ line' = IF CountNewLines(pending.typ)
               THEN line + CountNewlinesIn(Slice(input, start, pos))
               ELSE line
    /\ pcD' = "infn"
    /\ UNCHANGED <<input, state, start, pos, width, oldPos, tokens, pending, op,
                   ret, prev, emitted, consumer>>

\* Emit, after the send: the bulk newline count and t.start = t.pos.
EmitRest ==
    /\ pcD = "emitRest"
    /\ line' = IF CountNewLines(pending.typ)
               THEN line + CountNewlinesIn(Slice(input, start, pos))
               ELSE line
    /\ start' = pos
    /\ pcD' = "infn"
    /\ UNCHANGED <<input, state, pos, width, oldPos, tokens, pending, op, ret,
                   prev, emitted, consumer>>

\* Errorf, up to the send.
ErrorfSend(msg) ==
    /\ pcD = "infn"
    /\ Len(emitted) < MaxTokens
    /\ op' = "Errorf" /\ prev' = Cur /\ ret' = 0
    /\ StartSend(Token("ERR", msg, start, line), "sendErr")
    /\ UNCHANGED <<input, state, cursor, oldPos, consumer>>

\* The return of Errorf as it would be if the loop went on after it.
ErrorfReturnGoesOn ==
    /\ pcD = "errRet"
    /\ pcD' = "loop"
    /\ UNCHANGED <<input, state, cursor, oldPos, tokens, pending, op, ret, prev,
                   emitted, consumer>>

\* Errorf returns nil and the state function returns that.
ErrorfReturn ==
    /\ pcD = "errRet"
    /\ state' = "nil"
    /\ pcD' = "loop"
    /\ UNCHANGED <<input, cursor, oldPos, tokens, pending, op, ret, prev,
                   emitted, consumer>>

\* ------------------------------------------------------ the consumer

\* The consumer's receive, shared by Next and Drain: the channel and the
\* driver after it.
Receive ==
    /\ pcD # "panic"
    /\ CanRecv(tokens, pcD \in Sending)
    /\ tokens' = AfterRecv(tokens, pcD \in Sending, pending)
    /\ pcD' = AfterSend(pcD)
    /\ received' = IF RecvOk(tokens, pcD \in Sending)
                   THEN Append(received, RecvValue(tokens, pcD \in Sending, pending))
                   ELSE received
    /\ UNCHANGED <<input, state, cursor, pending, op, ret, prev, emitted>>

ConsumerOnly ==
    /\ pcD # "panic"
    /\ UNCHANGED <<input, driver, tokens>>

\* The consumer calls Next.
NextCall ==
    /\ pcC \in {"idle", "drained"}
    /\ pcC' = "next"
    /\ ConsumerOnly
    /\ UNCHANGED <<oldPos, tkn, received, returned>>

\* tkn := <-t.tokens
NextRecv ==
    /\ pcC = "next"
    /\ Receive
    /\ tkn' = RecvValue(tokens, pcD \in Sending, pending)
    /\ pcC' = "got"
    /\ UNCHANGED <<oldPos, returned>>

\* The Tokenizer fields the consumer's next statement reads: in Next,
\* after the receive, t.oldPos = t.pos reads pos.
ConsumerReads == IF pcC = "got" THEN {"pos"} ELSE {}

\* The cursor fields the driver may write next: any of them inside a state
\* function, line and start in the rest of Emit, none while it is parked
\* in a send or gone.
DriverWrites ==
    IF pcD = "infn" THEN {"pos", "start", "line", "width"}
    ELSE IF pcD = "emitRest" THEN {"line", "start"}
    ELSE {}

\* The values the unsynchronised read of t.pos in Next can see: the
\* driver's last write when the driver is parked or gone, else any offset.
PosSeenByConsumer ==
    IF pcD \in Sending \cup {"done", "spin"} THEN {pos}
    ELSE (0 .. Len(input)) \cup {pos}

\* t.oldPos = t.pos; return tkn
NextReturn ==
    /\ pcC = "got"
    /\ oldPos' \in PosSeenByConsumer
    /\ returned' = IF tkn # ZeroToken THEN Append(returned, tkn) ELSE returned
    /\ pcC' = "idle"
    /\ ConsumerOnly
    /\ UNCHANGED <<tkn, received>>

\* The consumer calls Drain.
DrainCall ==
    /\ pcC = "idle"
    /\ pcC' = "drain"
    /\ ConsumerOnly
    /\ UNCHANGED <<oldPos, tkn, received, returned>>

\* Drain as it would be with a single receive in place of the loop.
DrainRecvOnce ==
    /\ pcC = "drain"
    /\ Receive
    /\ pcC' = "drained"
    /\ UNCHANGED <<oldPos, tkn, returned>>

\* for range t.tokens {}: one receive; the loop ends on a closed channel.
DrainRecv ==
    /\ pcC = "drain"
    /\ Receive
    /\ pcC' = IF RecvOk(tokens, pcD \in Sending) THEN "drain" ELSE "drained"
    /\ UNCHANGED <<oldPos, tkn, returned>>

\* The consumer gives up: it calls neither Next nor Drain again.
Stop ==
    /\ pcC = "idle"
    /\ pcC' = "stopped"
    /\ ConsumerOnly
    /\ UNCHANGED <<oldPos, tkn, received, returned>>

\* ------------------------------------- Next called by a state function

\* A state function calls Next: the driver goes into the receive.
FnCallsNext ==
    /\ pcD = "infn"
    /\ pcD' = "nextInFn"
    /\ UNCHANGED <<input, state, cursor, oldPos, tokens, pending, op, ret, prev,
                   emitted, consumer>>

\* The receive of that Next, with the driver itself as the receiver (so
\* no sender is parked), then t.oldPos = t.pos and the return.
FnNextRecv ==
    /\ pcD = "nextInFn"
    /\ CanRecv(tokens, FALSE)
    /\ tokens' = AfterRecv(tokens, FALSE, pending)
    /\ oldPos' = pos
    /\ pcD' = "infn"
    /\ UNCHANGED <<input, state, cursor, pending, op, ret, prev, emitted, pcC,
                   tkn, received, returned>>

\* ------------------------------------------------ two grammars

\* "ab\ncd", "12x" and "12".
LinesInput == <<97, 98, 10, 99, 100>>

DigitsThenX == <<49, 50, 120>>

DigitsOnly == <<49, 50>>

\* The alphabet "0123456789".
Digits == 48 .. 57

\* The grammar's test for the end of the input on what NextRune gave:
\* eof, or the U+FFFD of width 0 that the decoder gives for an empty rest.
AtEndOfInput == ret = eof \/ (ret = RuneError /\ width = 0)

\* The state function has just been entered.
Entered == op \in {"New", "return"}

\* A state function of a grammar returns next; the return is recorded as
\* the last thing done.
GrammarReturn(next) ==
    /\ pcD = "infn"
    /\ state' = next
    /\ pcD' = "loop"
    /\ op' = "return"
    /\ UNCHANGED <<input, cursor, oldPos, tokens, pending, ret, prev, emitted,
                   consumer>>

\* One token per line.  lexLine reads up to a newline or the end; at a
\* newline it steps back, emits the line and goes on to lexSep.
LexLine ==
    /\ state = "lexLine"
    /\ \/ /\ (Entered \/ (op = "NextRune" /\ ret # newline /\ ~AtEndOfInput))
          /\ NextRune
       \/ /\ op = "NextRune" /\ ret = newline
          /\ Backup
       \/ /\ op = "Backup"
          /\ EmitSend("Line")
       \/ /\ op = "Emit"
          /\ GrammarReturn("lexSep")
       \/ /\ op = "NextRune" /\ AtEndOfInput
          /\ GrammarReturn("lexEnd")

\* lexSep reads the newline and drops it with Ignore.
LexSep ==
    /\ state = "lexSep"
    /\ \/ Entered /\ NextRune
       \/ op = "NextRune" /\ Ignore
       \/ op = "Ignore" /\ GrammarReturn("lexLine")

\* lexEnd emits what is left of the last line and ends the chain.
LexEnd ==
    /\ state = "lexEnd"
    /\ \/ Entered /\ pos > start /\ EmitSend("Line")
       \/ (op = "Emit" \/ (Entered /\ pos <= start)) /\ GrammarReturn("nil")

\* Digits only: MatchMany over the digits, Emit of a Number, then the
\* next rune has to be the end of the input, or else Errorf.
LexNumber ==
    /\ state = "lexNumber"
    /\ \/ Entered /\ MatchMany(Digits)
       \/ op = "MatchMany" /\ EmitSend("Number")
       \/ op = "Emit" /\ NextRune
       \/ op = "NextRune" /\ AtEndOfInput /\ GrammarReturn("nil")
       \/ /\ op = "NextRune" /\ ~AtEndOfInput
          /\ \E msg \in Messages : ErrorfSend(msg)

\* ------------------------------------------------------- behaviours

DriverNext ==
    \/ RunCall
    \/ RunClose
    \/ \E next \in {"fn", "nil"} : FnReturn(next)
    \/ NextRune
    \/ Peek
    \/ Backup
    \/ \E a \in Alphabets : MatchOne(a)
    \/ \E a \in Alphabets : MatchMany(a)
    \/ Ignore
    \/ \E tt \in GrammarTypes : EmitSend(tt)
    \/ EmitRest
    \/ \E msg \in Messages : ErrorfSend(msg)
    \/ ErrorfReturn

ConsumerNext ==
    \/ NextCall
    \/ NextRecv
    \/ NextReturn
    \/ DrainCall
    \/ DrainRecv
    \/ Stop

Next == DriverNext \/ ConsumerNext

\* The driver under every consumer, on FewInputs.
InitFew == Init /\ input \in FewInputs

Spec == InitFew /\ [][Next]_vars

\* The driver on every input, under a consumer that calls Drain and so
\* never holds the driver back for good.
NextScan == DriverNext \/ DrainCall \/ DrainRecv

SpecScan == Init /\ [][NextScan]_vars

\* The driver with state functions that call Backup anywhere.
NextMisuse == NextScan \/ BackupUnchecked

InitMisuse == Init /\ input \in MultiByteInputs \cup FewInputs

SpecMisuse == InitMisuse /\ [][NextMisuse]_vars

\* The two grammars on their inputs, under every consumer.
InitScenario ==
    /\ \E sc \in { <<LinesInput, "lexLine">>,
                    <<DigitsThenX, "lexNumber">>,
                    <<DigitsOnly, "lexNumber">> } :
           input = sc[1] /\ state = sc[2]
    /\ start = 0 /\ pos = 0 /\ width = 0 /\ line = 0 /\ oldPos = 0
    /\ tokens = [buf |-> <<>>, closed |-> FALSE]
    /\ pcD = "loop"
    /\ pending = ZeroToken
    /\ pcC = "idle"
    /\ tkn = ZeroToken
    /\ op = "New" /\ ret = 0
    /\ prev = [pos |-> 0, start |-> 0, line |-> 0, width |-> 0]
    /\ emitted = <<>> /\ received = <<>> /\ returned = <<>>

GrammarNext ==
    \/ RunCall
    \/ RunClose
    \/ LexLine
    \/ LexSep
    \/ LexEnd
    \/ LexNumber
    \/ EmitRest
    \/ ErrorfReturn

NextScenario == GrammarNext \/ ConsumerNext

SpecScenario == InitScenario /\ [][NextScenario]_vars

\* The full system with state functions that may call Next themselves.
NextSelf == Next \/ FnCallsNext

SpecSelfNext == InitFew /\ [][NextSelf]_vars

\* The full system with the scheduling the Go runtime gives: a goroutine
\* that can run does run (the driver; the consumer once inside Next or
\* Drain).  Whether the consumer calls Next or Drain at all is its choice.
\* The strong fairness of the nil return is the premise that the state
\* function chain ends when its sends are not held back.
Fairness ==
    /\ WF_vars(DriverNext)
    /\ SF_vars(FnReturn("nil"))
    /\ WF_vars(NextRecv)
    /\ WF_vars(NextReturn)
    /\ WF_vars(DrainRecv)

InitLive == Init /\ input \in LiveInputs

SpecLive == InitLive /\ [][Next]_vars /\ Fairness

\* ================================================================
\* Properties
\* ================================================================

IsPrefix(s, t) == Len(s) <= Len(t) /\ SubSeq(t, 1, Len(s)) = s

\* ---------------------------------------------------------------- C1
\* C1: what Next returns is, in order, what the driver sent: the tokens
\* taken off the channel and the tokens Next returned are prefixes of the
\* tokens sent; a Next that has just returned a token returned the one
\* last taken; and a consumer that sees the closed channel has taken every
\* token sent, all of them through Next unless Drain discarded some.
C1_TokensInOrder ==
    /\ IsPrefix(received, emitted)
    /\ IsPrefix(returned, received)
    /\ (pcC = "got" /\ tkn # ZeroToken) => received = Append(returned, tkn)
    /\ (pcC = "got" /\ tkn = ZeroToken) => received = emitted
    /\ (pcC = "got" /\ tkn = ZeroToken /\ Len(returned) = Len(received))
           => returned = emitted

\* Next has returned two different tokens and then seen the closed channel.
C1_Witness ==
    /\ pcC = "got" /\ tkn = ZeroToken
    /\ Len(returned) = 2 /\ returned[1] # returned[2]
    /\ returned = emitted

\* ---------------------------------------------------------------- C2
\* C2: the channel is closed only once the state function chain has
\* returned nil and the run loop has ended; once closed it stays closed and
\* no token is sent; a Next waiting on the closed channel can proceed; and
\* once the chain has returned nil the channel does get closed.
C2_ClosedOnlyAtTheEnd ==
    tokens.closed => (state = "nil" /\ pcD = "done")

C2_NextOnClosedDoesNotBlock ==
    (tokens.closed /\ pcC = "next") => ENABLED NextRecv

C2_TerminalCloses ==
    /\ []C2_ClosedOnlyAtTheEnd
    /\ []C2_NextOnClosedDoesNotBlock
    /\ [][tokens.closed => (tokens'.closed /\ emitted' = emitted)]_vars
    /\ (state = "nil" /\ pcD = "loop") ~> tokens.closed

\* Next has returned from the closed channel and the consumer is in Next
\* once more.
C2_Witness ==
    /\ tokens.closed /\ pcC = "next"
    /\ tkn = ZeroToken /\ emitted # <<>> /\ received = emitted

\* ---------------------------------------------------------------- C3
\* C3: a Next that receives on the closed channel returns a Token whose
\* category is EOF.
C3_NextAfterCloseReturnsEOF ==
    [][(pcC = "next" /\ tokens.closed /\ pcC' = "got") => tkn'.typ = "EOF"]_vars

\* ---------------------------------------------------------------- C4
\* C4: provided no state function runs forever, a Drain that has been
\* called returns, and when it has returned the driver has ended and the
\* channel is closed.
C4_DrainReturns ==
    /\ (pcC = "drain") ~> (pcC = "drained" \/ pcD = "spin")
    /\ [](pcC = "drained" => (tokens.closed /\ pcD = "done"))

\* Drain has returned after discarding tokens that Next never saw.
C4_Witness ==
    /\ pcC = "drained"
    /\ Len(received) = MaxTokens /\ returned = <<>>

\* ---------------------------------------------------------------- C5
\* C5: with the consumer gone for good and a token not yet taken, the
\* driver is in that send, the chain has not returned nil and the channel
\* is open; and nothing moves from there.
C5_DriverHeldInSend ==
    (pcC = "stopped" /\ Len(emitted) > Len(received))
        => (pcD \in Sending /\ state # "nil" /\ ~tokens.closed)

C5_StoppedConsumerBlocksDriver ==
    /\ []C5_DriverHeldInSend
    /\ [][(pcC = "stopped" /\ pcD \in Sending) => UNCHANGED vars]_vars

\* The consumer took one token and went away; the driver is held in its
\* second send.
C5_Witness ==
    /\ pcC = "stopped" /\ pcD \in Sending
    /\ Len(received) = 1 /\ Len(emitted) = 2

\* ---------------------------------------------------------------- C6
\* C6: the driver is never more than one token ahead of the consumer, and
\* it is past its send (the rest of Emit, the next read, the next state
\* function) only when the consumer has taken every token sent.
C6_Rendezvous ==
    /\ Len(emitted) - Len(received) <= 1
    /\ pcD \notin Sending => Len(emitted) = Len(received)
    /\ tokens.buf = <<>>

\* The driver has finished an Emit that the consumer's Drain took, and
\* has read on.
C6_Witness ==
    /\ op = "NextRune" /\ pcD = "infn"
    /\ Len(emitted) = 1 /\ received = emitted /\ pcC = "drain"
    /\ start > 0 /\ pos > start

\* ---------------------------------------------------------------- C7
\* C7: under the grammar author's contract (Backup only right after a
\* read), 0 <= start <= pos <= len(input) in every reachable state.
C7_PositionalInvariant == 0 <= start /\ start <= pos /\ pos <= Len(input)

\* A Backup that undoes a read of a whole code point and lands exactly on
\* start, away from offset 0.
C7_Witness == op = "Backup" /\ pos = start /\ start > 0 /\ width > 0

\* ---------------------------------------------------------------- C8
\* C8: the line of every emitted token is the number of newlines in
\* input[0:start] plus one.
C8_TokenLineIsNewlinesBeforePlusOne ==
    \A i \in 1 .. Len(emitted) :
        emitted[i].line = CountNewlinesIn(Slice(input, 0, emitted[i].pos)) + 1

\* ---------------------------------------------------------------- C9
\* C9: a NextRune called with pos at or past the end of the input returns
\* eof, leaves pos and line alone and sets width to 0.
C9_NextRuneAtEndReturnsEof ==
    (op = "NextRune" /\ prev.pos >= Len(input))
        => (ret = eof /\ pos = prev.pos /\ line = prev.line /\ width = 0)

\* --------------------------------------------------------------- C10
\* C10: a Backup right after a NextRune puts pos and line back to what
\* they were before the NextRune.
C10_BackupExact ==
    [][(op = "NextRune" /\ op' = "Backup")
          => (pos' = prev.pos /\ line' = prev.line)]_vars

\* A Backup has just undone the read of a newline.
C10_Witness ==
    /\ op = "Backup" /\ width = 1
    /\ prev.pos = pos + 1
    /\ input[pos + 1] = newline
    /\ prev.line = line + 1

\* A step in which a state function calls the primitive called name.
Calls(name) ==
    /\ pcD = "infn" /\ pcD' # "loop"
    /\ op' = name /\ prev' = Cur
    /\ pcC' = pcC

\* --------------------------------------------------------------- C11
\* C11: Peek returns, leaves pos, start and line as they were and sends
\* no token; a Peek right after a Peek returns the same rune.
C11_PeekHasNoEffect ==
    [][Calls("Peek")
          => /\ pcD' = "infn"
             /\ pos' = pos /\ start' = start /\ line' = line
             /\ emitted' = emitted /\ tokens' = tokens
             /\ (op = "Peek" => ret' = ret)]_vars

\* A Peek has looked at a newline, away from offset 0, from the cursor an
\* earlier width-1 read left.
C11_Witness ==
    /\ op = "Peek" /\ ret = newline
    /\ prev = Cur /\ pos > 0

\* --------------------------------------------------------------- C12
\* C12: the token Emit sends has the text input[start:pos] and the offset
\* start; when Emit is over start is pos and pos is what it was; and an
\* Emit right after an Emit sends the empty text at offset pos.
C12_TokenOfEmit ==
    pcD = "sendEmit"
        => /\ pending.val = Slice(input, start, pos)
           /\ pending.pos = start
           /\ emitted[Len(emitted)] = pending

C12_EmitSlices ==
    /\ []C12_TokenOfEmit
    /\ [][(pcD = "emitRest" /\ pcD' = "infn") => (start' = pos /\ pos' = pos)]_vars
    /\ [][(op = "Emit" /\ Calls("Emit"))
             => (pending'.val = <<>> /\ pending'.pos = pos)]_vars

\* The driver is in the send of a second Emit, made right after one that
\* sent a text that was not empty.
C12_Witness ==
    /\ pcD = "sendEmit" /\ op = "Emit" /\ prev.start = prev.pos
    /\ Len(emitted) = 2
    /\ emitted[1].val # <<>> /\ emitted[1].typ # "ERR"
    /\ emitted[2].val = <<>> /\ emitted[2].pos = pos

\* --------------------------------------------------------------- C13
\* C13: the token Errorf sends has the category ERR, the message, and the
\* start and line of the moment; it is the last token sent; from its send
\* on the driver only returns nil and closes the channel, which does
\* happen once the token is taken; and Errorf leaves start, pos and line
\* as they were.
C13_ErrorTokenIsLast ==
    /\ \A i \in 1 .. Len(emitted) : emitted[i].typ = "ERR" => i = Len(emitted)
    /\ (emitted # <<>> /\ emitted[Len(emitted)].typ = "ERR")
           => \/ pcD \in {"sendErr", "errRet"}
              \/ (state = "nil" /\ pcD \in {"loop", "done"})
    /\ pcD = "sendErr"
           => /\ pending.typ = "ERR" /\ pending.val \in Messages
              /\ pending.pos = start /\ pending.line = line
              /\ emitted[Len(emitted)] = pending

C13_ErrorfEndsTheScan ==
    /\ []C13_ErrorTokenIsLast
    /\ [][(Calls("Errorf") \/ pcD \in {"sendErr", "errRet"})
             => UNCHANGED <<start, pos, line>>]_vars
    /\ (pcD = "errRet") ~> tokens.closed

\* The scan ended with a token and then an error token raised past the
\* first line, both taken by the consumer.
C13_Witness ==
    /\ tokens.closed /\ received = emitted
    /\ Len(emitted) = 2
    /\ emitted[1].typ # "ERR" /\ emitted[2].typ = "ERR"
    /\ emitted[2].pos > 0 /\ emitted[2].line > 0

\* --------------------------------------------------------------- C14
\* C14: in no state is the consumer about to access a cursor field that
\* the driver may be writing.
C14_ConsumerNeverTouchesCursor == ConsumerReads \cap DriverWrites = {}

\* --------------------------------------------------------------- C18
\* C18: Ignore sends no token, adds to line the number of newlines in
\* input[start:pos], sets start to pos and leaves pos and width as they
\* were.
C18_IgnoreEffect ==
    [][Calls("Ignore")
          => /\ pcD' = "infn"
             /\ emitted' = emitted /\ tokens' = tokens
             /\ line' = line + CountNewlinesIn(Slice(input, start, pos))
             /\ start' = pos
             /\ pos' = pos /\ width' = width]_vars

\* Ignore has discarded a span with one newline in it, after a read of
\* more than one byte.
C18_Witness ==
    /\ op = "Ignore" /\ pcD = "infn"
    /\ start = pos /\ prev.start < pos
    /\ line = prev.line + 1
    /\ width > 1 /\ width = prev.width

\* --------------------------------------------------------------- C17
\* The end of the longest run of members of alphabet that begins at p.
RECURSIVE LongestRunEnd(_, _)
LongestRunEnd(p, alphabet) ==
    IF p >= Len(input) THEN p
    ELSE LET d == DecodeRuneInString(Slice(input, p, Len(input)))
         IN  IF d.r \in alphabet THEN LongestRunEnd(p + d.w, alphabet) ELSE p

\* C17: for every alphabet, MatchMany returns, with pos at the end of the
\* longest run of members of the alphabet that begins at the pos it was
\* called with.
C17_MatchManyStopsAfterLongestRun ==
    [][\A a \in Alphabets :
          MatchMany(a) => (pcD' = "infn" /\ pos' = LongestRunEnd(pos, a))]_vars

\* --------------------------------------------------------------- C19
\* C19: once a state function has called Next, the driver is held in that
\* receive for good: the receive cannot proceed, the chain has not
\* returned nil, the channel is open, a consumer in Next or Drain cannot
\* proceed either, and no step changes the driver or the channel.
C19_DriverHeldInReceive ==
    pcD = "nextInFn"
        => /\ ~ENABLED FnNextRecv
           /\ state # "nil" /\ ~tokens.closed
           /\ ~ENABLED NextRecv /\ ~ENABLED DrainRecv

C19_SelfNextDeadlocks ==
    /\ []C19_DriverHeldInReceive
    /\ [][pcD = "nextInFn" => UNCHANGED <<driver, tokens>>]_vars

\* The driver sent a token that the consumer's Drain took, then called
\* Next; the consumer is still in Drain.
C19_Witness ==
    /\ pcD = "nextInFn" /\ pcC = "drain"
    /\ Len(emitted) = 1 /\ received = emitted

\* --------------------------------------------------------------- C20
\* C20: every Backup that returns, wherever it is called, moves pos back
\* by the recorded width and leaves the width as it was; so a Backup
\* right after a Backup moves pos back by as much as the first did, and a
\* Backup right after a Peek moves pos back by the width of the rune that
\* Peek decoded.
C20_BackupUsesRecordedWidth ==
    [][Calls("Backup")
        => /\ pos' = pos - width
           /\ width' = width
           /\ (op = "Backup" => pos' = pos - (prev.pos - pos))
           /\ (op = "Peek" /\ 0 <= pos /\ pos <= Len(input)
                 => pos' = pos - DecodeRuneInString(Slice(input, pos, Len(input))).w)
       ]_vars

\* On "aé": NextRune, Peek, Backup has moved pos back from 1 by the two
\* bytes of the peeked rune, to before start.
C20_Witness ==
    /\ input = <<97, 195, 169>>
    /\ op = "Backup" /\ pcD = "infn"
    /\ prev.pos = 1 /\ prev.width = 2
    /\ pos = 0 - 1 /\ width = 2 /\ pos < start

\* --------------------------------------------------------------- C15
\* The consumer has seen the end of the stream.
SeenTheEnd == (pcC = "got" /\ tkn = ZeroToken) \/ pcC = "drained"

TextAndLine(s) == [i \in 1 .. Len(s) |-> [val |-> s[i].val, line |-> s[i].line]]

\* C15: on "ab\ncd" under the one-token-per-line grammar, what the
\* consumer has received is always a prefix of ("ab", line 1),
\* ("cd", line 2), and all of it once the consumer has seen the end.
C15_LinesScenario ==
    input = LinesInput
        => LET expected == << [val |-> <<97, 98>>, line |-> 1],
                              [val |-> <<99, 100>>, line |-> 2] >>
           IN  /\ IsPrefix(TextAndLine(received), expected)
               /\ SeenTheEnd => TextAndLine(received) = expected

\* --------------------------------------------------------------- C16
\* C16: on "12x" under the digits grammar, the consumer receives first a
\* Number with text "12", then an Error token at offset 2, line 1, then
\* nothing more, and both once it has seen the end.
C16_NumberScenario ==
    input = DigitsThenX
        => /\ Len(received) <= 2
           /\ Len(received) >= 1
                 => received[1].typ = "Number" /\ received[1].val = <<49, 50>>
           /\ Len(received) >= 2
                 => /\ received[2].typ = "ERR"
                    /\ received[2].pos = 2 /\ received[2].line = 1
           /\ SeenTheEnd => Len(received) = 2

====
